---- MODULE Spec2Model ----
(***************************************************************************)
(* Model of my_first_bot (src/app.py): a LINE webhook bot that keeps a     *)
(* per-user selected date in the dictionary user_sessions and, on a        *)
(* location message, scrapes an event site and replies.                    *)
(*                                                                         *)
(* Texts are sequences of one-character strings, so that slicing,          *)
(* stripping, prefix tests and concatenation are computed, not assumed.    *)
(* A date is the ordinal of its day; day 0 is a Monday, so the weekday of  *)
(* day n (datetime.weekday(): Monday = 0 ... Sunday = 6) is n % 7.         *)
(***************************************************************************)
EXTENDS Integers, Sequences, FiniteSets, TLC

VARIABLES
    user_sessions,  \* the dictionary user_sessions: user id -> selected date
    now,            \* the day datetime.now() falls on
    elapsed,        \* the days that passed since the server started
    last,           \* what the most recent step of the server did
    pending,        \* history: each user's latest date selection not yet followed by a location message
    scrapeIn,       \* the arguments and the site's answer of the scrape under study
    scrapeOut,      \* what scrape_walkerplus made of scrapeIn
    pc,             \* per request thread: the line handle_location_message is at
    selected_date,  \* per request thread: the local selected_date
    events,         \* per request thread: the local events
    failure,        \* per request thread: the exception that ended the handler
    calls,          \* the calls of scrape_walkerplus made by the request threads
    sent            \* the replies sent by the request threads

vars == <<user_sessions, now, elapsed, last, pending, scrapeIn, scrapeOut,
          pc, selected_date, events, failure, calls, sent>>

handlerVars == <<user_sessions, now, elapsed, last, pending>>
scrapeVars == <<scrapeIn, scrapeOut>>
threadVars == <<pc, selected_date, events, failure, calls, sent>>
serverVars == <<now, elapsed, last, pending, scrapeIn, scrapeOut>>

----------------------------------------------------------------------------
(* Bounds of the model *)

MaxElems == 6
MaxVaried == 3
MaxTicks == 1

(* Constants of the program *)

MaxEvents == 5
TitleLimit == 40

----------------------------------------------------------------------------
(* Texts *)

None == <<"None">>     \* Python's None, where a text was looked for

UnknownTitle == <<"t", "i", "t", "l", "e", "?">>   \* the default title of line 104
SitePrefix == <<"https://www.walkerplus.com">>
Http == "http"         \* the character group a text starting with "http" starts with

RECURSIVE LStrip(_)
LStrip(s) == IF s # <<>> /\ Head(s) = " " THEN LStrip(Tail(s)) ELSE s

RECURSIVE RStrip(_)
RStrip(s) == IF s # <<>> /\ s[Len(s)] = " " THEN RStrip(SubSeq(s, 1, Len(s) - 1)) ELSE s

\* tag.get_text(strip=True) of a tag holding one string
get_text(tag) == RStrip(LStrip(tag))

startswith_http(s) == s # <<>> /\ Head(s) = Http

\* Python's truth value of a text or None
Truthy(v) == v # None /\ v # <<>>

\* s[:n]
Slice(s, n) == SubSeq(s, 1, IF Len(s) < n THEN Len(s) ELSE n)

----------------------------------------------------------------------------
(* The event site's answer *)

(* A candidate element, as the extraction reads it: the text of its first  *)
(* h3 and h2 (None: no such tag), whether it has an img and an a, their    *)
(* attributes (None: not set), and whether reading it raises.              *)
Elem(h3, h2, img, src, data_src, a, href, raises) ==
    [h3 |-> h3, h2 |-> h2, img |-> img, src |-> src, data_src |-> data_src,
     a |-> a, href |-> href, raises |-> raises]

Good == Elem(<<"S", "a">>, None, TRUE, <<"/", "i">>, None, TRUE, <<"/", "e">>, FALSE)
Untitled == Elem(None, None, FALSE, None, None, TRUE, <<Http, "x">>, FALSE)
NoLink == Elem(None, <<"A", "r">>, TRUE, None, <<Http, "j">>, FALSE, None, FALSE)
Broken == Elem(<<"B">>, None, FALSE, None, None, TRUE, <<"/", "b">>, TRUE)
Blank == Elem(<<" ">>, <<"H">>, TRUE, None, None, TRUE, <<"/", "k">>, FALSE)
NoHref == Elem(<<" ", "N", " ">>, None, FALSE, None, None, TRUE, None, FALSE)
Wordy == Elem([i \in 1..(TitleLimit + 1) |-> "w"], None, FALSE, None, None, TRUE, <<Http, "w">>, FALSE)

\* a document names its elements; Tag gives the element of a name
Elems == {"Good", "Untitled", "NoLink", "Broken", "Blank", "NoHref", "Wordy"}

Tag(e) ==
    CASE e = "Good" -> Good
      [] e = "Untitled" -> Untitled
      [] e = "NoLink" -> NoLink
      [] e = "Broken" -> Broken
      [] e = "Blank" -> Blank
      [] e = "NoHref" -> NoHref
      [] e = "Wordy" -> Wordy

LongElems == {"Good", "Untitled", "Broken"}

\* find_all's three answers, each in document order: s cut at i and j
Doc(s, i, j) ==
    [div |-> SubSeq(s, 1, i), li |-> SubSeq(s, i + 1, j), article |-> SubSeq(s, j + 1, Len(s))]

\* scrapeIn is the answer "ok" with a document of at most n elements of S
OkInput(S, n) ==
    \E k \in 0..n : \E s \in [1..k -> S] : \E i \in 0..k : \E j \in i..k :
        scrapeIn = [http |-> "ok", doc |-> Doc(s, i, j)]

NoDoc == [div |-> <<>>, li |-> <<>>, article |-> <<>>]

----------------------------------------------------------------------------
(* scrape_walkerplus *)

absolute(url) == IF Truthy(url) /\ ~startswith_http(url) THEN SitePrefix \o url ELSE url

\* lines 101-104; a Tag is true even when empty, so an h3 hides the h2, and
\* find(".event-title") looks for a tag of that name, which no document has
title_of(el) ==
    LET title_element == IF el.h3 # None THEN el.h3 ELSE el.h2
    IN IF title_element # None THEN get_text(title_element) ELSE UnknownTitle

image_url_of(el) ==
    IF el.img THEN absolute(IF Truthy(el.src) THEN el.src ELSE el.data_src) ELSE <<>>

link_url_of(el) == IF el.a THEN absolute(el.href) ELSE <<>>

\* a slip: the default title taken for no title
is_valid_titled(title, link_url) == title # UnknownTitle /\ Truthy(title) /\ Truthy(link_url)

\* lines 123-124: whether the element's record is appended
is_valid(title, link_url) == Truthy(title) /\ Truthy(link_url)

\* one pass of the loop body, lines 99-129: the events list after the element
extract_event(evs, e) ==
    LET el == Tag(e) IN
    IF el.raises THEN evs
    ELSE IF is_valid(title_of(el), link_url_of(el))
         THEN Append(evs, [title |-> title_of(el), image_url |-> image_url_of(el),
                           link_url |-> link_url_of(el)])
         ELSE evs

\* a slip: the matches of the three strategies merged
event_elements_merged(doc) == doc.div \o doc.li \o doc.article

\* lines 92-96
event_elements(doc) ==
    IF doc.div # <<>> THEN doc.div ELSE IF doc.li # <<>> THEN doc.li ELSE doc.article

RECURSIVE extract_all(_, _)
extract_all(evs, els) ==
    IF els = <<>> THEN evs ELSE extract_all(extract_event(evs, Head(els)), Tail(els))

\* lines 52-131: the body of the outer try
scrape_try(http, doc) ==
    IF http = "network_error" \/ http = "http_error" THEN [exc |-> "RequestException", events |-> <<>>]
    ELSE IF http = "parse_error" THEN [exc |-> "Exception", events |-> <<>>]
    ELSE [exc |-> "none", events |-> extract_all(<<>>, Slice(event_elements(doc), MaxEvents))]

\* a slip: only the handler of line 133
scrape_except_requests(exc) == IF exc = "RequestException" THEN "none" ELSE exc

\* lines 133-138: the exception the outer handlers let through
scrape_except(exc) == IF exc \in {"RequestException", "Exception"} THEN "none" ELSE exc

scrape_walkerplus(http, doc) ==
    LET r == scrape_try(http, doc)
    IN [ran |-> TRUE, raised |-> scrape_except(r.exc),
        events |-> IF r.exc = "none" THEN r.events ELSE <<>>]

HttpOutcomes == {"ok", "network_error", "http_error", "parse_error"}

----------------------------------------------------------------------------
(* The scraper on its own *)

NotRun == [ran |-> FALSE, raised |-> "none", events |-> <<>>]

ScrapeInit ==
    \* short documents of every kind of element, long ones of three kinds, no document on a failure
    /\ \/ OkInput(Elems, MaxVaried)
       \/ OkInput(LongElems, MaxElems)
       \/ scrapeIn \in [http : HttpOutcomes \ {"ok"}, doc : {NoDoc}]
    /\ scrapeOut = NotRun

Scrape ==
    /\ scrapeOut = NotRun
    /\ scrapeOut' = scrape_walkerplus(scrapeIn.http, scrapeIn.doc)
    /\ UNCHANGED <<scrapeIn, handlerVars, threadVars>>

----------------------------------------------------------------------------
(* Requests *)

Users == {"u1", "u2"}
Tokens == {"r1", "r2"}
Coords == {<<35, 139>>, <<34, 135>>}

SearchText == "event search"          \* the text of line 171
TodayText == "today's events"         \* the three texts of line 186
TomorrowText == "tomorrow's events"
WeekendText == "this weekend's events"
DateLabels == {TodayText, TomorrowText, WeekendText}
Texts == {SearchText} \cup DateLabels \cup {"hello"}

NoCoords == <<0, 0>>

TextEvents == [type : {"text"}, user : Users, reply_token : Tokens, text : Texts, coords : {NoCoords}]
LocationEvents ==
    {ev \in [type : {"location"}, user : Users, reply_token : Tokens, text : {""}, coords : Coords] :
        (ev.reply_token = "r1") = (ev.coords = <<35, 139>>)}
PostbackEvents == [type : {"postback"}, user : Users, reply_token : {"r1"}, text : {""}, coords : {NoCoords}]
WebhookEvents == TextEvents \cup LocationEvents \cup PostbackEvents

\* the events of the requests that come with a wrong signature
ForgedEvents == {ev \in WebhookEvents : ev.user = "u1" /\ ev.reply_token = "r1" /\ ev.text \in {"", WeekendText}}

\* what the event site answers to the handler's scrape
SiteAnswers ==
    {[http |-> "network_error", doc |-> NoDoc],
     [http |-> "ok", doc |-> NoDoc],
     [http |-> "ok", doc |-> Doc(<<"Good">>, 1, 1)],
     [http |-> "ok", doc |-> Doc(<<"Wordy", "Untitled">>, 0, 2)]}

----------------------------------------------------------------------------
(* Messages sent with line_bot_api.reply_message *)

NoDate == 0 - 1

Message(kind, text, date, coords, columns) ==
    [kind |-> kind, text |-> text, date |-> date, coords |-> coords, columns |-> columns]

DateChoice == Message("buttons: choose a date", "", NoDate, NoCoords, <<>>)       \* lines 173-184
SendLocation(d) == Message("buttons: send location", "", d, NoCoords, <<>>)       \* lines 204-211
Echo(text) == Message("text: echo", text, NoDate, NoCoords, <<>>)                 \* line 215
NoDateSelected == Message("text: no date selected", "", NoDate, NoCoords, <<>>)   \* lines 225-227
NoEventsFound(d, c) == Message("text: no events found", "", d, c, <<>>)           \* lines 255-257

\* lines 240-252
Carousel(d, evs) ==
    Message("carousel", "", d, NoCoords,
            [i \in 1..Len(evs) |->
                [title |-> Slice(evs[i].title, TitleLimit), date |-> d, uri |-> evs[i].link_url]])

Reply(token, message) == [reply_token |-> token, message |-> message]

----------------------------------------------------------------------------
(* user_sessions *)

NoSessions == [u \in {} |-> 0]

\* a slip: no membership check
has_session_always(sessions, u) == TRUE

\* line 224
has_session(sessions, u) == u \in DOMAIN sessions

\* line 231: the value read, or the KeyError
read_session(sessions, u) ==
    IF u \in DOMAIN sessions THEN [raised |-> "none", date |-> sessions[u]]
    ELSE [raised |-> "KeyError", date |-> NoDate]

\* a slip: setdefault, which keeps an earlier value
set_session_default(sessions, u, d) ==
    [x \in DOMAIN sessions \cup {u} |-> IF x \in DOMAIN sessions THEN sessions[x] ELSE d]

\* line 202
set_session(sessions, u, d) == [x \in DOMAIN sessions \cup {u} |-> IF x = u THEN d ELSE sessions[x]]

\* a slip: the entry read but never deleted
clear_session_kept(sessions, u) ==
    [raised |-> IF u \in DOMAIN sessions THEN "none" ELSE "KeyError", sessions |-> sessions]

\* a variant: pop(user_id, None), which deletes without a KeyError
clear_session_quiet(sessions, u) ==
    [raised |-> "none", sessions |-> [x \in DOMAIN sessions \ {u} |-> sessions[x]]]

\* line 260: the dictionary after del, or the KeyError
clear_session(sessions, u) ==
    IF u \in DOMAIN sessions
    THEN [raised |-> "none", sessions |-> [x \in DOMAIN sessions \ {u} |-> sessions[x]]]
    ELSE [raised |-> "KeyError", sessions |-> sessions]

----------------------------------------------------------------------------
(* The handlers: what one call does to user_sessions, what it sends, the   *)
(* scrapes it makes and the exception it ends with ("none": it returns)    *)

Outcome(sessions, replies, scrapes, raised) ==
    [sessions |-> sessions, replies |-> replies, scrapes |-> scrapes, raised |-> raised]

weekday(day) == day % 7

\* lines 196-198
days_until_weekend(today) ==
    LET d == 5 - weekday(today) IN IF d <= 0 THEN d + 7 ELSE d

\* lines 191-199
select_date(text, today) ==
    IF text = TodayText THEN today
    ELSE IF text = TomorrowText THEN today + 1
    ELSE today + days_until_weekend(today)

handle_text_message(sessions, event, today) ==
    IF event.text = SearchText
    THEN Outcome(sessions, <<Reply(event.reply_token, DateChoice)>>, <<>>, "none")
    ELSE IF event.text \in DateLabels
    THEN LET d == select_date(event.text, today)
         IN Outcome(set_session(sessions, event.user, d),
                    <<Reply(event.reply_token, SendLocation(d))>>, <<>>, "none")
    ELSE Outcome(sessions, <<Reply(event.reply_token, Echo(event.text))>>, <<>>, "none")

\* line 262, where the name event is what the loop of line 241 left in it:
\* the last scraped record when there was one, which has no reply_token
send_reply(event, evs, message) ==
    IF evs = <<>>
    THEN [raised |-> "none", replies |-> <<Reply(event.reply_token, message)>>]
    ELSE [raised |-> "AttributeError", replies |-> <<>>]

\* lines 231-262, with the date read and the events scraped
reply_to_location(sessions, event, stored, scraped) ==
    LET call == [coords |-> event.coords, date |-> stored.date, events |-> scraped.events]
        reply_message == IF scraped.events # <<>> THEN Carousel(stored.date, scraped.events)
                         ELSE NoEventsFound(stored.date, event.coords)
        cleared == clear_session(sessions, event.user)
        replied == send_reply(event, scraped.events, reply_message)
    IN IF stored.raised # "none" THEN Outcome(sessions, <<>>, <<>>, stored.raised)
       ELSE IF scraped.raised # "none" THEN Outcome(sessions, <<>>, <<call>>, scraped.raised)
       ELSE IF cleared.raised # "none" THEN Outcome(sessions, <<>>, <<call>>, cleared.raised)
       ELSE Outcome(cleared.sessions, replied.replies, <<call>>, replied.raised)

handle_location_message(sessions, event, site) ==
    IF ~has_session(sessions, event.user)
    THEN Outcome(sessions, <<Reply(event.reply_token, NoDateSelected)>>, <<>>, "none")
    ELSE reply_to_location(sessions, event, read_session(sessions, event.user),
                           scrape_walkerplus(site.http, site.doc))

\* lines 265-269
handle_postback(sessions, event) == Outcome(sessions, <<>>, <<>>, "none")

\* a slip: the events dispatched whatever the signature
signature_unchecked(signature) == TRUE

\* handler.handle, line 158: the signature check of the SDK
signature_ok(signature) == signature = "valid"

\* lines 147-163: the outcome of the dispatch and the status of the response
callback(sessions, signature, event, today, site) ==
    IF ~signature_ok(signature)
    THEN [out |-> Outcome(sessions, <<>>, <<>>, "InvalidSignatureError"), status |-> 400]
    ELSE LET out == CASE event.type = "text" -> handle_text_message(sessions, event, today)
                      [] event.type = "location" -> handle_location_message(sessions, event, site)
                      [] event.type = "postback" -> handle_postback(sessions, event)
         IN [out |-> out, status |-> IF out.raised = "none" THEN 200 ELSE 500]

----------------------------------------------------------------------------
(* The server handling one request at a time *)

NoEvent == [type |-> "none", user |-> "", reply_token |-> "", text |-> "", coords |-> NoCoords]

NoRequest ==
    [route |-> "none", signature |-> "", event |-> NoEvent, today |-> 0, pre |-> NoSessions,
     out |-> Outcome(NoSessions, <<>>, <<>>, "none"), status |-> 0]

\* the history of pending date selections, kept by what the user saw:
\* a date selection's reply names the date, a location message uses it up
pending_after(p, event, out) ==
    IF event.type = "text" /\ event.text \in DateLabels /\ out.replies # <<>>
    THEN [x \in DOMAIN p \cup {event.user} |->
             IF x = event.user THEN out.replies[1].message.date ELSE p[x]]
    ELSE IF event.type = "location"
    THEN [x \in DOMAIN p \ {event.user} |-> p[x]]
    ELSE p

Weekdays == 0..6

HandlerInit ==
    /\ user_sessions = NoSessions
    /\ now \in Weekdays
    /\ elapsed = 0
    /\ last = NoRequest
    /\ pending = NoSessions

\* a request that visits no site
NoSite == [http |-> "none", doc |-> NoDoc]

\* POST /callback: the server's state after the request
served(signature, event, site) ==
    LET r == callback(user_sessions, signature, event, now, site)
    IN [user_sessions |-> r.out.sessions,
        last |-> [route |-> "callback", signature |-> signature, event |-> event, today |-> now,
                  pre |-> user_sessions, out |-> r.out, status |-> r.status],
        pending |-> IF r.status = 400 THEN pending ELSE pending_after(pending, event, r.out)]

\* POST /callback with a text message
CallbackText ==
    \E ev \in TextEvents :
        LET r == served("valid", ev, NoSite) IN
        /\ user_sessions' = r.user_sessions
        /\ last' = r.last
        /\ pending' = r.pending
        /\ UNCHANGED <<now, elapsed, scrapeVars, threadVars>>

\* POST /callback with a location message, and the site's answer to its scrape
CallbackLocation ==
    \E ev \in LocationEvents, site \in SiteAnswers :
        LET r == served("valid", ev, site) IN
        /\ user_sessions' = r.user_sessions
        /\ last' = r.last
        /\ pending' = r.pending
        /\ UNCHANGED <<now, elapsed, scrapeVars, threadVars>>

\* POST /callback with a postback
CallbackPostback ==
    \E ev \in PostbackEvents :
        LET r == served("valid", ev, NoSite) IN
        /\ user_sessions' = r.user_sessions
        /\ last' = r.last
        /\ pending' = r.pending
        /\ UNCHANGED <<now, elapsed, scrapeVars, threadVars>>

\* POST /callback with a wrong signature
CallbackRejected ==
    \E ev \in ForgedEvents :
        LET r == served("invalid", ev, NoSite) IN
        /\ user_sessions' = r.user_sessions
        /\ last' = r.last
        /\ pending' = r.pending
        /\ UNCHANGED <<now, elapsed, scrapeVars, threadVars>>

\* GET /, lines 141-143
Index ==
    /\ last' = [NoRequest EXCEPT !.route = "index", !.today = now, !.pre = user_sessions,
                                 !.out = Outcome(user_sessions, <<>>, <<>>, "none"), !.status = 200]
    /\ UNCHANGED <<user_sessions, now, elapsed, pending, scrapeVars, threadVars>>

\* a day passes
Tick ==
    /\ elapsed < MaxTicks
    /\ now' = now + 1
    /\ elapsed' = elapsed + 1
    /\ last' = [NoRequest EXCEPT !.route = "tick", !.today = now + 1, !.pre = user_sessions,
                                 !.out = Outcome(user_sessions, <<>>, <<>>, "none")]
    /\ UNCHANGED <<user_sessions, pending, scrapeVars, threadVars>>

----------------------------------------------------------------------------
(* Two location messages of one user on two request threads: the steps of  *)
(* handle_location_message, one line of the handler at a time              *)

Threads == {1, 2}
Sender == "u1"

ThreadEvent(t) ==
    [type |-> "location", user |-> Sender, text |-> "",
     reply_token |-> IF t = 1 THEN "r1" ELSE "r2",
     coords |-> IF t = 1 THEN <<35, 139>> ELSE <<34, 135>>]

ThreadInit ==
    /\ \E label \in DateLabels : user_sessions = set_session(NoSessions, Sender, select_date(label, 0))
    /\ pc = [t \in Threads |-> "line 224"]
    /\ selected_date = [t \in Threads |-> NoDate]
    /\ events = [t \in Threads |-> <<>>]
    /\ failure = [t \in Threads |-> "none"]
    /\ calls = <<>>
    /\ sent = <<>>

\* lines 224-229
Check(t) ==
    /\ pc[t] = "line 224"
    /\ IF has_session(user_sessions, Sender)
       THEN pc' = [pc EXCEPT ![t] = "line 231"] /\ UNCHANGED sent
       ELSE /\ sent' = Append(sent, Reply(ThreadEvent(t).reply_token, NoDateSelected))
            /\ pc' = [pc EXCEPT ![t] = "returned"]
    /\ UNCHANGED <<user_sessions, selected_date, events, failure, calls, serverVars>>

\* line 231
Read(t) ==
    /\ pc[t] = "line 231"
    /\ LET stored == read_session(user_sessions, Sender)
       IN IF stored.raised = "none"
          THEN /\ selected_date' = [selected_date EXCEPT ![t] = stored.date]
               /\ pc' = [pc EXCEPT ![t] = "line 236"]
               /\ UNCHANGED failure
          ELSE /\ failure' = [failure EXCEPT ![t] = stored.raised]
               /\ pc' = [pc EXCEPT ![t] = "raised"]
               /\ UNCHANGED selected_date
    /\ UNCHANGED <<user_sessions, events, calls, sent, serverVars>>

\* line 236
CallScrape(t) ==
    /\ pc[t] = "line 236"
    /\ \E site \in SiteAnswers :
          LET scraped == scrape_walkerplus(site.http, site.doc)
          IN /\ calls' = Append(calls, [thread |-> t, coords |-> ThreadEvent(t).coords,
                                        date |-> selected_date[t]])
             /\ IF scraped.raised = "none"
                THEN /\ events' = [events EXCEPT ![t] = scraped.events]
                     /\ pc' = [pc EXCEPT ![t] = "line 260"]
                     /\ UNCHANGED failure
                ELSE /\ failure' = [failure EXCEPT ![t] = scraped.raised]
                     /\ pc' = [pc EXCEPT ![t] = "raised"]
                     /\ UNCHANGED events
    /\ UNCHANGED <<user_sessions, selected_date, sent, serverVars>>

\* line 260
Delete(t) ==
    /\ pc[t] = "line 260"
    /\ LET cleared == clear_session(user_sessions, Sender)
       IN /\ user_sessions' = cleared.sessions
          /\ IF cleared.raised = "none"
             THEN pc' = [pc EXCEPT ![t] = "line 262"] /\ UNCHANGED failure
             ELSE /\ failure' = [failure EXCEPT ![t] = cleared.raised]
                  /\ pc' = [pc EXCEPT ![t] = "raised"]
    /\ UNCHANGED <<selected_date, events, calls, sent, serverVars>>

\* line 262
SendReply(t) ==
    /\ pc[t] = "line 262"
    /\ LET message == IF events[t] # <<>> THEN Carousel(selected_date[t], events[t])
                      ELSE NoEventsFound(selected_date[t], ThreadEvent(t).coords)
           r == send_reply(ThreadEvent(t), events[t], message)
       IN /\ sent' = sent \o r.replies
          /\ IF r.raised = "none"
             THEN pc' = [pc EXCEPT ![t] = "returned"] /\ UNCHANGED failure
             ELSE /\ failure' = [failure EXCEPT ![t] = r.raised]
                  /\ pc' = [pc EXCEPT ![t] = "raised"]
    /\ UNCHANGED <<user_sessions, selected_date, events, calls, serverVars>>

----------------------------------------------------------------------------
(* Specifications *)

HandlerIdle == now = 0 /\ elapsed = 0 /\ last = NoRequest /\ pending = NoSessions
ScrapeIdle == scrapeIn = NoSite /\ scrapeOut = NotRun
ThreadIdle ==
    /\ pc = [t \in Threads |-> "returned"]
    /\ selected_date = [t \in Threads |-> NoDate]
    /\ events = [t \in Threads |-> <<>>]
    /\ failure = [t \in Threads |-> "none"]
    /\ calls = <<>>
    /\ sent = <<>>

\* the server handling one request at a time
Init == HandlerInit /\ ScrapeIdle /\ ThreadIdle
Next == CallbackText \/ CallbackLocation \/ CallbackPostback \/ CallbackRejected \/ Index \/ Tick
Spec == Init /\ [][Next]_vars

\* scrape_walkerplus on every answer of the site
ScrapeSpecInit == ScrapeInit /\ user_sessions = NoSessions /\ HandlerIdle /\ ThreadIdle
ScrapeNext == Scrape
ScrapeSpec == ScrapeSpecInit /\ [][ScrapeNext]_vars

\* two request threads
ThreadNext == \E t \in Threads : Check(t) \/ Read(t) \/ CallScrape(t) \/ Delete(t) \/ SendReply(t)
ThreadSpecInit == ThreadInit /\ HandlerIdle /\ ScrapeIdle
ThreadSpec == ThreadSpecInit /\ [][ThreadNext]_vars

----------------------------------------------------------------------------
(* Properties of scrape_walkerplus, under ScrapeSpec *)

Matches == <<scrapeIn.doc.div, scrapeIn.doc.li, scrapeIn.doc.article>>

\* the first strategy with a match, the last one when none has a match
FirstMatching ==
    CHOOSE k \in 1..3 : (\A j \in 1..(k - 1) : Matches[j] = <<>>) /\ (Matches[k] # <<>> \/ k = 3)

\* the elements the loop may read
FirstFive == SubSeq(Matches[FirstMatching], 1,
                    IF Len(Matches[FirstMatching]) < MaxEvents THEN Len(Matches[FirstMatching]) ELSE MaxEvents)

\* the records of the elements of els, each extracted on its own
RECURSIVE RecordsOf(_)
RecordsOf(els) == IF els = <<>> THEN <<>> ELSE extract_event(<<>>, Head(els)) \o RecordsOf(Tail(els))

Reads(e) == ~Tag(e).raises
HasLink(e) == Tag(e).a /\ Tag(e).href # None /\ Tag(e).href # <<>>
HasNoTitleTag(e) == Tag(e).h3 = None /\ Tag(e).h2 = None

Scraped == scrapeOut.ran /\ scrapeIn.http = "ok"

\* C6, as claimed: every returned record has a link URL and a title that is
\* not the default title; an element without h3/h2 is never included.
C6_NoDefaultTitle ==
    Scraped => \A i \in 1..Len(scrapeOut.events) :
                  /\ scrapeOut.events[i].link_url # <<>>
                  /\ scrapeOut.events[i].link_url # None
                  /\ scrapeOut.events[i].title # UnknownTitle

\* C6, amended: every returned record has a non-empty link URL and a
\* non-empty title; nothing is returned when no element read has an anchor
\* href; and an element without h3/h2 that has a link is included, under the
\* default title.
C6_LinkAndTitle ==
    Scraped =>
        /\ \A i \in 1..Len(scrapeOut.events) :
              /\ scrapeOut.events[i].link_url \notin {<<>>, None}
              /\ scrapeOut.events[i].title \notin {<<>>, None}
        /\ (\A k \in 1..Len(FirstFive) : ~HasLink(FirstFive[k])) => scrapeOut.events = <<>>
        /\ \A k \in 1..Len(FirstFive) :
              (HasNoTitleTag(FirstFive[k]) /\ HasLink(FirstFive[k]) /\ Reads(FirstFive[k])) =>
                  \E i \in 1..Len(scrapeOut.events) :
                      /\ scrapeOut.events[i].title = UnknownTitle
                      /\ scrapeOut.events[i].link_url \in
                            {Tag(FirstFive[k]).href, SitePrefix \o Tag(FirstFive[k]).href}

C6_Witness ==
    /\ Scraped
    /\ \E i \in 1..Len(scrapeOut.events) : scrapeOut.events[i].title = UnknownTitle
    /\ \E k \in 1..Len(FirstFive) : ~HasLink(FirstFive[k])

\* C7: the records are those of the first five elements, in document order,
\* of the first strategy that matches; never more than five; none when no
\* strategy matches.
C7_FirstStrategyFirstFive ==
    Scraped =>
        /\ scrapeOut.events = RecordsOf(FirstFive)
        /\ Len(scrapeOut.events) <= MaxEvents
        /\ (\A j \in 1..3 : Matches[j] = <<>>) => scrapeOut.events = <<>>

C7_Witness ==
    /\ Scraped
    /\ Len(Matches[FirstMatching]) > MaxEvents
    /\ Len(scrapeOut.events) = MaxEvents
    /\ Reads(Matches[FirstMatching][MaxEvents + 1])
    /\ HasLink(Matches[FirstMatching][MaxEvents + 1])

\* C8: scrape_walkerplus never raises and returns a list: the empty list when
\* the request fails, the status is not 2xx or parsing fails; and when reading
\* an element fails, the records of all the other elements.
C8_NeverRaises ==
    scrapeOut.ran =>
        /\ scrapeOut.raised = "none"
        /\ DOMAIN scrapeOut.events = 1..Len(scrapeOut.events)
        /\ scrapeIn.http # "ok" => scrapeOut.events = <<>>
        /\ scrapeIn.http = "ok" => scrapeOut.events = RecordsOf(SelectSeq(FirstFive, Reads))

C8_Witness ==
    /\ Scraped
    /\ Len(FirstFive) = 3
    /\ Reads(FirstFive[1]) /\ ~Reads(FirstFive[2]) /\ Reads(FirstFive[3])
    /\ Len(scrapeOut.events) = 2

----------------------------------------------------------------------------
(* Properties of the handlers, under Spec *)

Handled(type) == last.route = "callback" /\ last.status # 400 /\ last.event.type = type

LastUser == last.event.user
HadDate == LastUser \in DOMAIN last.pre

\* the sessions of the users other than u are the same in s and t
OthersSame(s, t, u) ==
    /\ DOMAIN s \ {u} = DOMAIN t \ {u}
    /\ \A x \in DOMAIN s \ {u} : s[x] = t[x]

\* C1: a location message of a user with a stored date gets exactly one
\* reply, with its reply token: a carousel of one column per record (title
\* cut to 40 characters, the action's URI the record's link_url) when the
\* scrape returned records, the "no events found" text with the date and the
\* coordinates when it returned none; and the handler does not raise.
C1_OneReply ==
    (Handled("location") /\ HadDate) =>
        /\ last.out.raised = "none"
        /\ Len(last.out.scrapes) = 1
        /\ Len(last.out.replies) = 1
        /\ last.out.replies[1].reply_token = last.event.reply_token
        /\ LET found == last.out.scrapes[1].events
               message == last.out.replies[1].message
           IN IF found = <<>>
              THEN /\ message.kind = "text: no events found"
                   /\ message.date = last.pre[LastUser]
                   /\ message.coords = last.event.coords
              ELSE /\ message.kind = "carousel"
                   /\ Len(message.columns) = Len(found)
                   /\ \A i \in 1..Len(found) :
                         /\ message.columns[i].title =
                               IF Len(found[i].title) <= TitleLimit THEN found[i].title
                               ELSE SubSeq(found[i].title, 1, TitleLimit)
                         /\ message.columns[i].uri = found[i].link_url

\* C2: when handle_location_message finishes, by returning or by raising, for
\* a user who had a stored date, the user has no entry in user_sessions, the
\* other users' entries are as before, and scrape_walkerplus was called once,
\* with the message's coordinates and the stored date.
C2_DateConsumed ==
    (Handled("location") /\ HadDate) =>
        /\ LastUser \notin DOMAIN user_sessions
        /\ OthersSame(user_sessions, last.pre, LastUser)
        /\ Len(last.out.scrapes) = 1
        /\ last.out.scrapes[1].coords = last.event.coords
        /\ last.out.scrapes[1].date = last.pre[LastUser]

C2_Witness ==
    /\ Handled("location") /\ HadDate
    /\ last.out.raised # "none"
    /\ DOMAIN user_sessions # {}

\* C3: a location message of a user with no entry in user_sessions gets one
\* reply, the instructional text; nothing is scraped, nothing is raised and
\* user_sessions is as it was.
C3_NoDateSelected ==
    (Handled("location") /\ ~HadDate) =>
        /\ last.out.replies = <<Reply(last.event.reply_token, NoDateSelected)>>
        /\ last.out.scrapes = <<>>
        /\ last.out.raised = "none"
        /\ last.status = 200
        /\ user_sessions = last.pre

C3_Witness ==
    /\ Handled("location") /\ ~HadDate
    /\ DOMAIN last.pre # {}
    /\ Len(last.out.replies) = 1

\* C4: after a date-label text of user u, user_sessions holds for u the newly
\* computed date, whatever it held for u before, and the entries of the other
\* users are as before; so each user's entry is always the date of their most
\* recent date selection not yet followed by a location message, and no entry
\* when there is none.
C4_OnePendingDate ==
    /\ (Handled("text") /\ last.event.text \in DateLabels) =>
          /\ LastUser \in DOMAIN user_sessions
          /\ Len(last.out.replies) = 1
          /\ user_sessions[LastUser] = last.out.replies[1].message.date
          /\ last.event.text = TodayText => user_sessions[LastUser] = last.today
          /\ last.event.text = TomorrowText => user_sessions[LastUser] = last.today + 1
          /\ last.event.text = WeekendText => user_sessions[LastUser] > last.today
          /\ OthersSame(user_sessions, last.pre, LastUser)
    /\ user_sessions = pending

C4_Witness ==
    /\ Handled("text") /\ last.event.text \in DateLabels
    /\ HadDate
    /\ last.pre[LastUser] # user_sessions[LastUser]
    /\ DOMAIN user_sessions = Users

Friday == 4     \* datetime.weekday() of a Friday

\* C5: for the this-weekend text the date written to the session is the next
\* Friday: the coming Friday when today is Monday to Thursday, the Friday of
\* the following week when today is Friday, Saturday or Sunday; it is 1 to 7
\* days after today.
C5_NextFriday ==
    (Handled("text") /\ last.event.text = WeekendText) =>
        LET d == user_sessions[LastUser] IN
        /\ weekday(d) = Friday
        /\ d - last.today \in 1..7
        /\ weekday(last.today) < Friday => d - last.today = Friday - weekday(last.today)
        /\ weekday(last.today) >= Friday => d - last.today = Friday + 7 - weekday(last.today)

\* C9: user_sessions changes only by a date-label text and by a location
\* message of a user who has an entry. The search text, any other text (which
\* is echoed verbatim), a postback and a request rejected with status 400 for
\* its signature leave it as it was; a postback and a rejected request send
\* no reply.
C9_Frame ==
    last.route = "callback" =>
        /\ user_sessions # last.pre =>
              \/ Handled("text") /\ last.event.text \in DateLabels
              \/ Handled("location") /\ HadDate
        /\ (Handled("text") /\ last.event.text = SearchText) =>
              /\ user_sessions = last.pre
              /\ last.out.replies = <<Reply(last.event.reply_token, DateChoice)>>
        /\ (Handled("text") /\ last.event.text \notin DateLabels \cup {SearchText}) =>
              /\ user_sessions = last.pre
              /\ Len(last.out.replies) = 1
              /\ last.out.replies[1].reply_token = last.event.reply_token
              /\ last.out.replies[1].message.kind = "text: echo"
              /\ last.out.replies[1].message.text = last.event.text
        /\ Handled("postback") => user_sessions = last.pre /\ last.out.replies = <<>>
        /\ last.signature = "invalid" =>
              /\ last.status = 400
              /\ user_sessions = last.pre
              /\ last.out.replies = <<>>

C9_Witness ==
    /\ last.route = "callback"
    /\ last.signature = "invalid"
    /\ last.event.text = WeekendText
    /\ last.status = 400
    /\ DOMAIN user_sessions = {"u2"}

----------------------------------------------------------------------------
(* Properties of two concurrent location messages, under ThreadSpec *)

CallsOf(t) == SelectSeq(calls, LAMBDA c : c.thread = t)

\* thread t has deleted the session entry
Deleted(t) ==
    \/ pc[t] = "line 262"
    \/ pc[t] = "returned" /\ CallsOf(t) # <<>>
    \/ pc[t] = "raised" /\ failure[t] = "AttributeError"

Finished(t) == pc[t] \in {"returned", "raised"}

\* C10, as claimed: one stored date is consumed by at most one of the two
\* handlers: scrape_walkerplus is called at most once per date selection and
\* no handler fails with a missing-key error.
C10_ConsumedOnce ==
    /\ Len(calls) <= 1
    /\ \A t \in Threads : failure[t] # "KeyError"

\* C10, amended: each handler calls scrape_walkerplus at most once, so a
\* stored date is scraped at most twice, always with that date; the entry is
\* deleted by exactly one handler, and the other one either answers that no
\* date is selected, its membership check coming after the delete, or fails
\* with a missing-key error at the read or at the delete.
C10_ConsumedPerHandler ==
    /\ \A t \in Threads : Len(CallsOf(t)) <= 1
    /\ \A i, j \in 1..Len(calls) : calls[i].date = calls[j].date
    /\ \A i \in 1..Len(calls) :
          Sender \in DOMAIN user_sessions => calls[i].date = user_sessions[Sender]
    /\ Cardinality({t \in Threads : Deleted(t)}) = IF Sender \in DOMAIN user_sessions THEN 0 ELSE 1
    /\ \A t \in Threads :
          (failure[t] = "KeyError" \/ (pc[t] = "returned" /\ CallsOf(t) = <<>>)) =>
              /\ \E o \in Threads \ {t} : Deleted(o)
              /\ ~Deleted(t)
    /\ (\A t \in Threads : Finished(t)) => \E t \in Threads : Deleted(t)

C10_Witness ==
    /\ \A t \in Threads : Finished(t)
    /\ Len(calls) = 2
    /\ \E t \in Threads : failure[t] = "KeyError"

====
